---- MODULE Spec2Model ----
(***************************************************************************)
(* Model of api/index.py: the five request handlers of the plant sample    *)
(* service over the PLANT_SAMPLE table, one action per handler.            *)
(*                                                                         *)
(* A request is answered in one step (the handler, with every statement   *)
(* it executes and its commit), then Deliver hands the response out and    *)
(* the service is idle again.  What fails outside the handler during a     *)
(* request (connect, execute, commit) is an input of the action.  prev,    *)
(* nCreated and nDeleted are history variables: the program keeps none of  *)
(* them.  The column types of PLANT_SAMPLE are not in api/index.py; they   *)
(* follow the data model of spec.md (date, JSON, integer columns).         *)
(*                                                                         *)
(* Python values are tagged tuples so that values of different Python      *)
(* types can be compared: <<"str", s>>, <<"int", n>>, <<"dict", k, v>>     *)
(* (a one-key JSON object), <<"date", y, m, d>> and <<"null">>.            *)
(***************************************************************************)
EXTENDS Integers, Sequences, FiniteSets, TLC

VARIABLES
    table,      \* committed rows of PLANT_SAMPLE: a set of records
    nextId,     \* next value of the sample_id sequence of the store
    req,        \* the request being answered: input, response and session
    prev,       \* the request answered just before the current one
    nCreated,   \* number of creates answered with success so far
    nDeleted    \* number of deletes answered with success so far

vars == <<table, nextId, req, prev, nCreated, nDeleted>>

-----------------------------------------------------------------------------
(* Bounds of the model *)

\* the store's sequence hands out sample ids 1..MaxId, then creates stop
MaxId == 2

-----------------------------------------------------------------------------
(* Python values *)

PyStr(s) == <<"str", s>>
PyInt(n) == <<"int", n>>
PyDict(k, v) == <<"dict", k, v>>
PyDate(y, m, d) == <<"date", y, m, d>>
Null == <<"null">>

\* the six non-id keys, in the order the handlers name them
RequiredKeys ==
    <<"date_of_sampling", "plant_sample_detail", "sampling_location",
      "environmental_conditions", "location_id", "researcher_id">>

KeySet == {RequiredKeys[i] : i \in 1..Len(RequiredKeys)}

\* the three fields the handlers pass through json.dumps
StructuredKeys == {"plant_sample_detail", "sampling_location", "environmental_conditions"}

Pad2(n) == IF n < 10 THEN "0" \o ToString(n) ELSE ToString(n)

\* str(datetime.date): ISO form, zero padded
DateStr(d) == ToString(d[2]) \o "-" \o Pad2(d[3]) \o "-" \o Pad2(d[4])

\* the same date written without zero padding, which the store also accepts
DateLoose(d) == ToString(d[2]) \o "-" \o ToString(d[3]) \o "-" \o ToString(d[4])

\* json.dumps with default separators
RECURSIVE json_dumps(_)
json_dumps(v) ==
    CASE v[1] = "str" -> "\"" \o v[2] \o "\""
      [] v[1] = "int" -> ToString(v[2])
      [] v[1] = "dict" -> "{\"" \o v[2] \o "\": " \o json_dumps(v[3]) \o "}"
      [] OTHER -> "null"

-----------------------------------------------------------------------------
(* Request inputs *)

Dates == {PyDate(2024, 1, 1), PyDate(2024, 3, 5)}

JsonValues ==
    { PyDict("type", PyStr("leaf")), PyDict("type", PyStr("root")),
      PyDict("lat", PyInt(1)), PyDict("humidity", PyInt(80)), PyStr("leaf") }

Variants == {1, 2}

\* the value a payload of variant v carries under key k
PayloadVal(k, v) ==
    CASE k = "date_of_sampling" ->
            IF v = 1 THEN PyStr("2024-01-01") ELSE PyStr("2024-3-5")
      [] k = "plant_sample_detail" ->
            IF v = 1 THEN PyDict("type", PyStr("leaf")) ELSE PyStr("leaf")
      [] k = "sampling_location" -> PyDict("lat", PyInt(1))
      [] k = "environmental_conditions" -> PyDict("humidity", PyInt(80))
      [] k = "location_id" -> PyInt(5)
      [] k = "researcher_id" -> PyInt(7)
      [] OTHER -> PyInt(1)

\* request bodies: every subset of the six keys; a variant 2 body also carries
\* a sample_id key, which no handler recognizes
Payload(S, v) ==
    [k \in S \cup (IF v = 2 THEN {"sample_id"} ELSE {}) |-> PayloadVal(k, v)]

Payloads == {Payload(S, v) : S \in SUBSET KeySet, v \in Variants}

\* path ids: every id the sequence can hand out
Ids == 1..MaxId

\* what can go wrong outside the handler during one request
Faults == {"none", "connect", "execute", "commit"}

NoData == [k \in {} |-> Null]
NoQuery == [update_fields |-> <<>>, values |-> <<>>]

-----------------------------------------------------------------------------
(* The store: table PLANT_SAMPLE and the driver *)

\* the store reads a date literal, zero padded or not
DateIn(v) == CHOOSE d \in Dates : v[2] \in {DateStr(d), DateLoose(d)}

IsDateText(v) == v[1] = "str" /\ \E d \in Dates : v[2] \in {DateStr(d), DateLoose(d)}

IsJsonText(v) == v[1] = "str" /\ \E j \in JsonValues : json_dumps(j) = v[2]

\* the driver hands a JSON column back decoded
JsonLoads(v) == CHOOSE j \in JsonValues : json_dumps(j) = v[2]

\* does column col take the parameter val
StoreAccepts(col, val) ==
    IF col = "sample_id" THEN val[1] = "int"
    ELSE \/ val = Null
         \/ CASE col = "date_of_sampling" -> IsDateText(val)
              [] col \in StructuredKeys -> IsJsonText(val)
              [] OTHER -> val[1] = "int"

\* the value column col holds after being sent the parameter val
StoreIn(col, val) ==
    IF col = "sample_id" THEN val[2]
    ELSE IF val = Null THEN Null
    ELSE IF col = "date_of_sampling" THEN DateIn(val)
    ELSE val

TableIds(tbl) == {r.sample_id : r \in tbl}

\* psycopg2.connect(...) at lines 24-31 sets no autocommit: a statement's
\* effect reaches the table only through conn.commit()
autocommit_on == TRUE
autocommit == FALSE

\* the table other requests see once a statement ran and before any commit
AfterExecute(tbl, txn) == IF autocommit THEN txn ELSE tbl

\* INSERT INTO PLANT_SAMPLE (columns) VALUES (params) RETURNING sample_id
InsertedId(stmt, seqval) ==
    IF \E i \in 1..Len(stmt.columns) : stmt.columns[i] = "sample_id"
    THEN LET i == CHOOSE j \in 1..Len(stmt.columns) : stmt.columns[j] = "sample_id"
         IN stmt.params[i][2]
    ELSE seqval

InsertedRow(stmt, seqval) ==
    [c \in KeySet \cup {"sample_id"} |->
        IF c = "sample_id" THEN InsertedId(stmt, seqval)
        ELSE IF \E i \in 1..Len(stmt.columns) : stmt.columns[i] = c
        THEN LET i == CHOOSE j \in 1..Len(stmt.columns) : stmt.columns[j] = c
             IN StoreIn(c, stmt.params[i])
        ELSE Null]

InsertAccepted(tbl, stmt, seqval) ==
    /\ Len(stmt.columns) = Len(stmt.params)
    /\ \A i \in 1..Len(stmt.columns) : StoreAccepts(stmt.columns[i], stmt.params[i])
    /\ InsertedId(stmt, seqval) \notin TableIds(tbl)

ExecInsert(tbl, stmt, seqval) == tbl \cup {InsertedRow(stmt, seqval)}

\* the column a term 'column = %s' of a SET clause assigns
TermColumn(term) == CHOOSE c \in KeySet \cup {"sample_id"} : term = c \o " = %s"

IsTerm(term) == \E c \in KeySet \cup {"sample_id"} : term = c \o " = %s"

\* UPDATE PLANT_SAMPLE SET <terms> WHERE sample_id = %s: one parameter per
\* term, in order, then the parameter of the WHERE clause
UpdatedRow(r, q) ==
    LET column == [i \in 1..Len(q.update_fields) |-> TermColumn(q.update_fields[i])]
    IN [c \in DOMAIN r |->
           IF \E i \in DOMAIN column : column[i] = c
           THEN LET i == CHOOSE j \in DOMAIN column : column[j] = c
                IN StoreIn(c, q.values[i])
           ELSE r[c]]

ExecUpdate(tbl, q) ==
    {IF r.sample_id = q.values[Len(q.values)][2] THEN UpdatedRow(r, q) ELSE r : r \in tbl}

\* the statement is taken when it has one parameter per placeholder, names
\* no column twice, every value fits its column and sample_id stays unique
UpdateAccepted(tbl, q) ==
    /\ Len(q.values) = Len(q.update_fields) + 1
    /\ q.values[Len(q.values)][1] = "int"
    /\ \A i \in 1..Len(q.update_fields) :
          /\ IsTerm(q.update_fields[i])
          /\ StoreAccepts(TermColumn(q.update_fields[i]), q.values[i])
          /\ \A j \in 1..Len(q.update_fields) :
                q.update_fields[j] = q.update_fields[i] => j = i
    /\ Cardinality(TableIds(ExecUpdate(tbl, q))) = Cardinality(tbl)

\* DELETE FROM PLANT_SAMPLE WHERE sample_id = %s, and its cur.rowcount
ExecDelete(tbl, id) == {r \in tbl : r.sample_id # id}

RowCount(tbl, id) == Cardinality({r \in tbl : r.sample_id = id})

\* a row as the DictCursor returns it: JSON columns decoded, the rest as stored
CursorRow(r) ==
    [c \in DOMAIN r |->
        IF c \in StructuredKeys /\ r[c] # Null THEN JsonLoads(r[c]) ELSE r[c]]

\* SELECT * FROM PLANT_SAMPLE: the rows in any order
FetchAll(tbl) ==
    {s \in [1..Cardinality(tbl) -> tbl] : \A r \in tbl : \E i \in DOMAIN s : s[i] = r}

-----------------------------------------------------------------------------
(* The handlers *)

Idle ==
    [op |-> "idle", sample_id |-> 0, data |-> NoData, status |-> 0, body |-> NoData,
     session |-> "none", query |-> NoQuery, executed |-> FALSE, committed |-> FALSE,
     rowcount |-> 0]

\* jsonify({'error': msg}), and the text of str(e) of a caught exception
ErrorBody(msg) == [error |-> msg]

ExceptionBody == ErrorBody("<exception>")

\* get_db_connection: a new session, or None when connect raises
get_db_connection(fault) == IF fault = "connect" THEN "None" ELSE "conn"

\* the dictionary both read handlers build from a fetched row
sample_json(sample) ==
    [sample_id |-> sample.sample_id,
     date_of_sampling |->
        IF sample.date_of_sampling = Null THEN PyStr("None")
        ELSE PyStr(DateStr(sample.date_of_sampling)),
     plant_sample_detail |-> sample.plant_sample_detail,
     sampling_location |-> sample.sampling_location,
     environmental_conditions |-> sample.environmental_conditions,
     location_id |-> sample.location_id,
     researcher_id |-> sample.researcher_id]

samples_list_short(samples) ==
    [i \in 1..(Len(samples) - 1) |-> sample_json(samples[i])]

\* the loop of get_all_samples over the fetched rows
samples_list(samples) ==
    [i \in 1..Len(samples) |-> sample_json(samples[i])]

get_all_samples(fault) ==
    /\ req.op = "idle"
    /\ UNCHANGED <<table, nextId, prev, nCreated, nDeleted>>
    /\ LET conn == get_db_connection(fault)
           r == [Idle EXCEPT !.op = "list"]
       IN IF conn = "None"
          THEN req' = [r EXCEPT !.status = 500,
                                !.body = ErrorBody("Database connection failed")]
          ELSE IF fault = "execute"
          THEN req' = [r EXCEPT !.status = 500, !.body = ExceptionBody,
                                !.session = "open"]
          ELSE \E samples \in FetchAll({CursorRow(x) : x \in table}) :
                  req' = [r EXCEPT !.status = 200, !.session = "closed",
                                   !.executed = TRUE,
                                   !.body = [success |-> TRUE,
                                             data |-> samples_list(samples)]]

has_any_required_field(data) ==
    \E i \in 1..Len(RequiredKeys) : RequiredKeys[i] \in DOMAIN data

\* all(k in data for k in [...the six keys...])
has_required_fields(data) ==
    \A i \in 1..Len(RequiredKeys) : RequiredKeys[i] \in DOMAIN data

insert_statement_swapped(data) ==
    [columns |-> RequiredKeys,
     params |-> <<data["date_of_sampling"],
                  PyStr(json_dumps(data["plant_sample_detail"])),
                  PyStr(json_dumps(data["sampling_location"])),
                  PyStr(json_dumps(data["environmental_conditions"])),
                  data["researcher_id"],
                  data["location_id"]>>]

insert_statement_with_id(data) ==
    [columns |-> IF "sample_id" \in DOMAIN data
                 THEN <<"sample_id">> \o RequiredKeys ELSE RequiredKeys,
     params |-> (IF "sample_id" \in DOMAIN data THEN <<data["sample_id"]>> ELSE <<>>)
                \o <<data["date_of_sampling"],
                     PyStr(json_dumps(data["plant_sample_detail"])),
                     PyStr(json_dumps(data["sampling_location"])),
                     PyStr(json_dumps(data["environmental_conditions"])),
                     data["location_id"],
                     data["researcher_id"]>>]

\* the INSERT of add_sample: its column list and its parameter tuple
insert_statement(data) ==
    [columns |-> RequiredKeys,
     params |-> <<data["date_of_sampling"],
                  PyStr(json_dumps(data["plant_sample_detail"])),
                  PyStr(json_dumps(data["sampling_location"])),
                  PyStr(json_dumps(data["environmental_conditions"])),
                  data["location_id"],
                  data["researcher_id"]>>]

add_sample(data, fault) ==
    /\ req.op = "idle"
    /\ nextId <= MaxId
    /\ UNCHANGED <<prev, nDeleted>>
    /\ LET r == [Idle EXCEPT !.op = "create", !.data = data]
       IN IF ~has_required_fields(data)
          THEN /\ req' = [r EXCEPT !.status = 400,
                                   !.body = ErrorBody("Missing required fields")]
               /\ UNCHANGED <<table, nextId, nCreated>>
          ELSE IF get_db_connection(fault) = "None"
          THEN /\ req' = [r EXCEPT !.status = 500,
                                   !.body = ErrorBody("Database connection failed")]
               /\ UNCHANGED <<table, nextId, nCreated>>
          ELSE IF ~(KeySet \subseteq DOMAIN data)
          THEN \* data[k] raises KeyError while the parameters are built
               /\ req' = [r EXCEPT !.status = 500, !.body = ExceptionBody,
                                   !.session = "open"]
               /\ UNCHANGED <<table, nextId, nCreated>>
          ELSE LET stmt == insert_statement(data)
                   txn == ExecInsert(table, stmt, nextId)
                   sample_id == InsertedId(stmt, nextId)
               IN IF fault = "execute" \/ ~InsertAccepted(table, stmt, nextId)
                  THEN /\ req' = [r EXCEPT !.status = 500, !.body = ExceptionBody,
                                           !.session = "open"]
                       /\ UNCHANGED <<table, nextId, nCreated>>
                  ELSE IF fault = "commit"
                  THEN /\ req' = [r EXCEPT !.status = 500, !.body = ExceptionBody,
                                           !.session = "open", !.executed = TRUE,
                                           !.rowcount = 1]
                       /\ table' = AfterExecute(table, txn)
                       /\ nextId' = nextId + 1
                       /\ UNCHANGED nCreated
                  ELSE /\ req' = [r EXCEPT !.status = 200, !.session = "closed",
                                           !.executed = TRUE, !.committed = TRUE,
                                           !.rowcount = 1,
                                           !.body = [success |-> TRUE,
                                                     sample_id |-> sample_id,
                                                     message |-> "Sample added successfully"]]
                       /\ table' = txn
                       /\ nextId' = nextId + 1
                       /\ nCreated' = nCreated + 1

get_sample(sample_id, fault) ==
    /\ req.op = "idle"
    /\ UNCHANGED <<table, nextId, prev, nCreated, nDeleted>>
    /\ LET r == [Idle EXCEPT !.op = "get", !.sample_id = sample_id]
       IN IF get_db_connection(fault) = "None"
          THEN req' = [r EXCEPT !.status = 500,
                                !.body = ErrorBody("Database connection failed")]
          ELSE IF fault = "execute"
          THEN req' = [r EXCEPT !.status = 500, !.body = ExceptionBody,
                                !.session = "open"]
          ELSE LET found == {x \in table : x.sample_id = sample_id}
               IN IF found = {}
                  THEN req' = [r EXCEPT !.status = 404, !.session = "closed",
                                        !.executed = TRUE,
                                        !.body = ErrorBody("Sample not found")]
                  ELSE \E x \in found :
                          req' = [r EXCEPT !.status = 200, !.session = "closed",
                                           !.executed = TRUE, !.rowcount = 1,
                                           !.body = [success |-> TRUE,
                                                     data |-> sample_json(CursorRow(x))]]

\* one 'if key in data' block of update_sample: a term and its value appended
AppendField(q, data, key, value) ==
    IF key \in DOMAIN data
    THEN [update_fields |-> Append(q.update_fields, key \o " = %s"),
          values |-> Append(q.values, value)]
    ELSE q

\* json.dumps(data[key]) where the key is present
Dumped(data, key) ==
    IF key \in DOMAIN data THEN PyStr(json_dumps(data[key])) ELSE Null

Given(data, key) == IF key \in DOMAIN data THEN data[key] ELSE Null

update_query_all_columns(data) ==
    [update_fields |-> [i \in 1..Len(RequiredKeys) |-> RequiredKeys[i] \o " = %s"],
     values |-> <<Given(data, "date_of_sampling"),
                  Dumped(data, "plant_sample_detail"),
                  Dumped(data, "sampling_location"),
                  Dumped(data, "environmental_conditions"),
                  Given(data, "location_id"),
                  Given(data, "researcher_id")>>]

update_query_reordered(data) ==
    LET q0 == NoQuery
        q1 == AppendField(q0, data, "date_of_sampling", Given(data, "date_of_sampling"))
        q2 == AppendField(q1, data, "plant_sample_detail", Dumped(data, "plant_sample_detail"))
        q3 == AppendField(q2, data, "sampling_location", Dumped(data, "sampling_location"))
        q4 == AppendField(q3, data, "environmental_conditions",
                          Dumped(data, "environmental_conditions"))
        q5 == AppendField(q4, data, "researcher_id", Given(data, "researcher_id"))
        q6 == AppendField(q5, data, "location_id", Given(data, "location_id"))
    IN q6

update_query_with_id(data) ==
    LET q0 == NoQuery
        q1 == AppendField(q0, data, "date_of_sampling", Given(data, "date_of_sampling"))
        q2 == AppendField(q1, data, "plant_sample_detail", Dumped(data, "plant_sample_detail"))
        q3 == AppendField(q2, data, "sampling_location", Dumped(data, "sampling_location"))
        q4 == AppendField(q3, data, "environmental_conditions",
                          Dumped(data, "environmental_conditions"))
        q5 == AppendField(q4, data, "location_id", Given(data, "location_id"))
        q6 == AppendField(q5, data, "researcher_id", Given(data, "researcher_id"))
        q7 == AppendField(q6, data, "sample_id", Given(data, "sample_id"))
    IN q7

\* update_fields and values as the six 'if key in data' blocks leave them
update_query(data) ==
    LET q0 == NoQuery
        q1 == AppendField(q0, data, "date_of_sampling", Given(data, "date_of_sampling"))
        q2 == AppendField(q1, data, "plant_sample_detail", Dumped(data, "plant_sample_detail"))
        q3 == AppendField(q2, data, "sampling_location", Dumped(data, "sampling_location"))
        q4 == AppendField(q3, data, "environmental_conditions",
                          Dumped(data, "environmental_conditions"))
        q5 == AppendField(q4, data, "location_id", Given(data, "location_id"))
        q6 == AppendField(q5, data, "researcher_id", Given(data, "researcher_id"))
    IN q6

update_sample(sample_id, data, fault) ==
    /\ req.op = "idle"
    /\ UNCHANGED <<nextId, prev, nCreated, nDeleted>>
    /\ LET r == [Idle EXCEPT !.op = "update", !.sample_id = sample_id, !.data = data]
           built == update_query(data)
       IN IF get_db_connection(fault) = "None"
          THEN /\ req' = [r EXCEPT !.status = 500,
                                   !.body = ErrorBody("Database connection failed")]
               /\ UNCHANGED table
          ELSE IF built.update_fields = <<>>
          THEN /\ req' = [r EXCEPT !.status = 400, !.session = "open",
                                   !.body = ErrorBody("No fields to update")]
               /\ UNCHANGED table
          ELSE LET query == [built EXCEPT !.values = Append(@, PyInt(sample_id))]
                   txn == ExecUpdate(table, query)
               IN IF fault = "execute" \/ ~UpdateAccepted(table, query)
                  THEN /\ req' = [r EXCEPT !.status = 500, !.body = ExceptionBody,
                                           !.session = "open", !.query = query]
                       /\ UNCHANGED table
                  ELSE IF fault = "commit"
                  THEN /\ req' = [r EXCEPT !.status = 500, !.body = ExceptionBody,
                                           !.session = "open", !.query = query,
                                           !.executed = TRUE,
                                           !.rowcount = RowCount(table, sample_id)]
                       /\ table' = AfterExecute(table, txn)
                  ELSE /\ req' = [r EXCEPT !.status = 200, !.session = "closed",
                                           !.query = query, !.executed = TRUE,
                                           !.committed = TRUE,
                                           !.rowcount = RowCount(table, sample_id),
                                           !.body = [success |-> TRUE,
                                                     message |-> "Sample updated successfully"]]
                       /\ table' = txn

delete_never_not_found(rowcount) == rowcount < 0

\* the test 'cur.rowcount == 0' of delete_sample
delete_not_found(rowcount) == rowcount = 0

delete_sample(sample_id, fault) ==
    /\ req.op = "idle"
    /\ UNCHANGED <<nextId, prev, nCreated>>
    /\ LET r == [Idle EXCEPT !.op = "delete", !.sample_id = sample_id]
           txn == ExecDelete(table, sample_id)
           rowcount == RowCount(table, sample_id)
       IN IF get_db_connection(fault) = "None"
          THEN /\ req' = [r EXCEPT !.status = 500,
                                   !.body = ErrorBody("Database connection failed")]
               /\ UNCHANGED <<table, nDeleted>>
          ELSE IF fault = "execute"
          THEN /\ req' = [r EXCEPT !.status = 500, !.body = ExceptionBody,
                                   !.session = "open"]
               /\ UNCHANGED <<table, nDeleted>>
          ELSE IF delete_not_found(rowcount)
          THEN /\ req' = [r EXCEPT !.status = 404, !.session = "closed",
                                   !.executed = TRUE, !.rowcount = rowcount,
                                   !.body = ErrorBody("Sample not found")]
               /\ table' = AfterExecute(table, txn)
               /\ UNCHANGED nDeleted
          ELSE IF fault = "commit"
          THEN /\ req' = [r EXCEPT !.status = 500, !.body = ExceptionBody,
                                   !.session = "open", !.executed = TRUE,
                                   !.rowcount = rowcount]
               /\ table' = AfterExecute(table, txn)
               /\ UNCHANGED nDeleted
          ELSE /\ req' = [r EXCEPT !.status = 200, !.session = "closed",
                                   !.executed = TRUE, !.committed = TRUE,
                                   !.rowcount = rowcount,
                                   !.body = [success |-> TRUE,
                                             message |-> "Sample deleted successfully"]]
               /\ table' = txn
               /\ nDeleted' = nDeleted + 1

\* the response leaves the handler: nothing of the request is kept but what
\* the next claim about 'the request just before' needs
Deliver ==
    /\ req.op # "idle"
    /\ req' = Idle
    /\ prev' = IF req.op = "create" /\ req.status = 200 THEN req ELSE Idle
    /\ UNCHANGED <<table, nextId, nCreated, nDeleted>>

-----------------------------------------------------------------------------
(* The specification *)

Init ==
    /\ table = {}
    /\ nextId = 1
    /\ req = Idle
    /\ prev = Idle
    /\ nCreated = 0
    /\ nDeleted = 0

Next ==
    \/ \E fault \in Faults : get_all_samples(fault)
    \/ \E data \in Payloads, fault \in Faults : add_sample(data, fault)
    \/ \E sample_id \in Ids, fault \in Faults : get_sample(sample_id, fault)
    \/ \E sample_id \in Ids, data \in Payloads, fault \in Faults :
          update_sample(sample_id, data, fault)
    \/ \E sample_id \in Ids, fault \in Faults : delete_sample(sample_id, fault)
    \/ Deliver

Spec == Init /\ [][Next]_vars

-----------------------------------------------------------------------------
(* Properties *)

\* the recognized keys a request body carries
Recognized(data) == KeySet \cap DOMAIN data

\* a handler answers: the step from the idle state to a response
Answers(op) == req.op = "idle" /\ req'.op = op

IsError(body) == "error" \in DOMAIN body

RowOf(tbl, id) == CHOOSE r \in tbl : r.sample_id = id

\* C1: whatever the exit path of a request, the session it obtained from
\* get_db_connection is closed when the response is returned.
C1_SessionClosedOnEveryPath == req.op # "idle" => req.session # "open"

\* C2: an update whose body carries none of the six recognized keys answers
\* 400 'No fields to update', whatever the id, executes and commits no
\* statement and leaves the table unchanged.
C2_NoFieldsToUpdate ==
    [][(Answers("update") /\ Recognized(req'.data) = {}) =>
          /\ req'.status = 400
          /\ req'.body = ErrorBody("No fields to update")
          /\ ~req'.executed
          /\ ~req'.committed
          /\ req'.query = NoQuery
          /\ table' = table]_vars

\* C3: a successful update with the recognized keys S changes, in the row with
\* the path id, only the columns in S: the other columns and sample_id of
\* that row, and every other row, are as before, and no row appears or goes.
C3_UpdateFrame ==
    [][(Answers("update") /\ req'.status = 200) =>
          LET S == Recognized(req'.data)
              id == req'.sample_id
          IN /\ TableIds(table') = TableIds(table)
             /\ Cardinality(table') = Cardinality(table)
             /\ \A r \in table :
                   IF r.sample_id # id THEN r \in table'
                   ELSE \A c \in DOMAIN r \ S : RowOf(table', id)[c] = r[c]]_vars

C3_Witness ==
    /\ req.op = "update"
    /\ req.status = 200
    /\ Cardinality(Recognized(req.data)) = 1
    /\ req.sample_id \in TableIds(table)
    /\ Cardinality(table) = 2

\* the data object a get answers for a row created from data under id
CreatedJson(data, id) ==
    [sample_id |-> id,
     date_of_sampling |-> PyStr(DateStr(DateIn(data["date_of_sampling"]))),
     plant_sample_detail |-> data["plant_sample_detail"],
     sampling_location |-> data["sampling_location"],
     environmental_conditions |-> data["environmental_conditions"],
     location_id |-> data["location_id"],
     researcher_id |-> data["researcher_id"]]

ListCounts ==
    /\ req.status = 200
    /\ req.body.success
    /\ Len(req.body.data) = nCreated - nDeleted
    /\ {req.body.data[i].sample_id : i \in 1..Len(req.body.data)} = TableIds(table)
    /\ Cardinality(table) = Len(req.body.data)

\* C5, as stated: from the empty table, whatever else was requested, a list
\* answers success with exactly (successful creates) - (successful deletes)
\* entries, one per row of the table.
C5_EveryListCounts == req.op = "list" => ListCounts

\* C5, amended: from the empty table, whatever else was requested, a list,
\* unless it is answered 500 because the connection or its SELECT failed,
\* answers success with exactly (successful creates) - (successful deletes)
\* entries, one per row of the table.
C5_ListCount ==
    (req.op = "list" /\ req.status # 500) => ListCounts

C5_Witness ==
    /\ req.op = "list"
    /\ req.status = 200
    /\ nCreated = 2
    /\ nDeleted = 1
    /\ Len(req.body.data) = 1

\* C6, as stated: a delete of an id that matches no row answers 404 'Sample
\* not found', commits nothing and leaves the table unchanged; a delete
\* commits only when its affected-row count is not zero.
C6_DeleteMissingIs404 ==
    [][Answers("delete") =>
          /\ req'.sample_id \notin TableIds(table) =>
                /\ req'.status = 404
                /\ req'.body = ErrorBody("Sample not found")
                /\ ~req'.committed
                /\ table' = table
          /\ req'.committed => req'.rowcount # 0]_vars

\* C6, amended: a delete of an id that matches no row commits nothing and
\* leaves the table unchanged, and unless it is answered 500 because the
\* connection or its DELETE failed it answers 404 'Sample not found'; a
\* delete commits only when its affected-row count is not zero.
C6_DeleteNotFound ==
    [][Answers("delete") =>
          /\ req'.sample_id \notin TableIds(table) =>
                /\ ~req'.committed
                /\ table' = table
                /\ req'.status # 500 =>
                      /\ req'.status = 404
                      /\ req'.body = ErrorBody("Sample not found")
          /\ req'.committed => req'.rowcount # 0]_vars

C6_Witness ==
    /\ req.op = "delete"
    /\ req.status = 404
    /\ req.sample_id \notin TableIds(table)
    /\ table # {}

\* C7: a create whose body lacks one of the six required keys answers 400
\* 'Missing required fields' without a session or a statement: no row is
\* added, the sequence is untouched and the answer carries no sample_id.
C7_MissingRequiredFields ==
    [][(Answers("create") /\ ~(KeySet \subseteq DOMAIN req'.data)) =>
          /\ req'.status = 400
          /\ req'.body = ErrorBody("Missing required fields")
          /\ req'.session = "none"
          /\ ~req'.executed
          /\ table' = table
          /\ nextId' = nextId]_vars

C7_Witness ==
    /\ req.op = "create"
    /\ req.status = 400
    /\ Cardinality(Recognized(req.data)) = 5
    /\ table # {}

\* no two rows share a sample_id
UniqueIds == \A r1, r2 \in table : r1.sample_id = r2.sample_id => r1 = r2

\* a successful create adds one row, under the sequence's next value, which is
\* also the id it answers, whatever sample_id its body carried
IdFromStore ==
    (Answers("create") /\ req'.status = 200) =>
        /\ req'.body.sample_id = nextId
        /\ nextId \notin TableIds(table)
        /\ table \subseteq table'
        /\ TableIds(table') = TableIds(table) \cup {nextId}

\* an update leaves every row under the sample_id it had
IdKeptByUpdate ==
    Answers("update") =>
        /\ TableIds(table') = TableIds(table)
        /\ Cardinality(table') = Cardinality(table)
        /\ \A r \in table : r.sample_id # req'.sample_id => r \in table'

\* C8: sample_id is unique in every state of the table, a row's sample_id is
\* the value the store generated at its creation and never one from the
\* create body, and no update changes any row's sample_id, whatever keys
\* (sample_id included) its body carries.
C8_SampleIdUniqueAndStable ==
    [](UniqueIds) /\ [][IdFromStore /\ IdKeptByUpdate]_vars

C8_Witness ==
    /\ req.op = "update"
    /\ req.status = 200
    /\ "sample_id" \in DOMAIN req.data
    /\ req.data["sample_id"] # PyInt(req.sample_id)
    /\ Cardinality(table) = 2
    /\ prev.op = "create"
    /\ "sample_id" \in DOMAIN prev.data
    /\ prev.data["sample_id"] # PyInt(prev.body.sample_id)

\* the six columns in the fixed order of the claim
CanonicalOrder ==
    <<"date_of_sampling", "plant_sample_detail", "sampling_location",
      "environmental_conditions", "location_id", "researcher_id">>

Position(k) == CHOOSE i \in 1..Len(CanonicalOrder) : CanonicalOrder[i] = k

\* the positional value the claim gives the column k of the body data
Serialized(data, k) ==
    IF k \in StructuredKeys THEN PyStr(json_dumps(data[k])) ELSE data[k]

\* C9: the statement update builds from a body with a recognized key has one
\* 'column = %s' term per recognized key of the body and no other, in the
\* fixed order, the i-th value is the (serialized) body value of the i-th
\* term's column, and the path id is the last value, one past the terms.
C9_UpdateStatementAligned ==
    (req.op = "update" /\ Recognized(req.data) # {} /\ req.session # "none") =>
        LET fields == req.query.update_fields
            vals == req.query.values
            n == Len(fields)
        IN /\ n = Cardinality(Recognized(req.data))
           /\ Len(vals) = n + 1
           /\ vals[n + 1] = PyInt(req.sample_id)
           /\ \A i \in 1..n :
                 /\ IsTerm(fields[i])
                 /\ TermColumn(fields[i]) \in Recognized(req.data)
                 /\ vals[i] = Serialized(req.data, TermColumn(fields[i]))
           /\ \A i, j \in 1..n :
                 i < j => Position(TermColumn(fields[i])) < Position(TermColumn(fields[j]))

C9_Witness ==
    /\ req.op = "update"
    /\ Recognized(req.data) = {"researcher_id", "plant_sample_detail"}
    /\ "sample_id" \in DOMAIN req.data
    /\ req.status = 200
    /\ Len(req.query.values) = 3

\* C10: a request answered with an error body, of any of the five handlers
\* and with any status, leaves the committed table as it was.
C10_ErrorLeavesTable ==
    [][(req.op = "idle" /\ req'.op # "idle" /\ IsError(req'.body)) =>
          table' = table]_vars

C10_Witness ==
    /\ req.op = "create"
    /\ req.status = 500
    /\ req.executed
    /\ IsError(req.body)
    /\ nextId = 3
    /\ Cardinality(table) = 1

====
